---- MODULE Spec2Model ----
(***************************************************************************)
(* Model of PySensMG2.py: a Modbus client that polls the holding registers *)
(* of a SENS MicroGenius 2 charger.  main connects, runs CYCLES sweeps of  *)
(* microgenius2_calls over SENS_MG2_MB_REGISTER_MAP with a scan interval   *)
(* between them, and closes the client.  The program is sequential; pc is  *)
(* the statement about to be executed.                                     *)
(***************************************************************************)
EXTENDS Integers, Sequences, FiniteSets, TLC

VARIABLES
    pc,          \* statement about to be executed
    CYCLES,      \* number of sweeps main runs (range(CYCLES), line 155)
    table,       \* the descriptors microgenius2_calls iterates over (line 169)
    count,       \* loop variable of main's for loop (line 155)
    idx,         \* number of descriptors the for loop of line 169 has taken
    error,       \* the error flag of microgenius2_calls (line 165)
    data_type,   \* result of get_data_type for the current descriptor
    rr,          \* response of the last read_holding_registers call
    client,      \* connection state of the Modbus client
    trace,       \* client calls and sleeps of the current sweep, in order
    results,     \* outcome of the read of each descriptor taken this sweep
    reports,     \* result lines logged this sweep
    initial,     \* outcome of main's connect: "none", "ok" or "failed"
    started,     \* sweeps started so far
    finished,    \* sweeps that returned so far
    scans,       \* scan-interval sleeps performed so far
    lastFailed,  \* the last read of the previous sweep failed
    connects,    \* connect() calls made by main
    exc,         \* the exception that ended the program, "" if none
    issued,      \* the client call of the statement at pc has been started
    outstanding, \* client calls started and not yet completed
    shutdown,    \* a shutdown of the program has been requested
    value        \* input and result of the last process_registers

vars == <<pc, CYCLES, table, count, idx, error, data_type, rr, client, trace,
          results, reports, initial, started, finished, scans, lastFailed,
          connects, exc, issued, outstanding, shutdown, value>>

----------------------------------------------------------------------------
(* Bounds of the model *)

\* sweeps are drawn from 0..MaxCycles
MaxCycles == 2
\* microgenius2_calls sweeps the first NumDesc rows of the register map
NumDesc == 3

----------------------------------------------------------------------------
(* Data *)

\* a row whose format is taken to be the 32-bit unsigned one whatever is written
DAllWide(addr, format, factor) == [addr |-> addr, format |-> "I", factor |-> factor]

\* one row of the register map
D(addr, format, factor) == [addr |-> addr, format |-> format, factor |-> factor]

\* (address, format, factor) of every row; comment and unit are display text
SENS_MG2_MB_REGISTER_MAP ==
    << 
       D(0, "I", 1), D(2, "I", 1), D(4, "I", 1), D(6, "I", 1),
       D(8, "i", 1), D(10, "H", 1), D(11, "H", 1), D(12, "I", 1),
       D(14, "I", 1), D(16, "I", 1), D(18, "I", 1), D(20, "I", 1),
       D(22, "I", 1), D(24, "I", 1), D(26, "I", 1), D(28, "I", 1),
       D(30, "I", 1), D(32, "I", 1), D(34, "I", 1), D(36, "I", 1),
       D(38, "I", 1), D(40, "I", 1), D(42, "I", 1), D(44, "I", 1),
       D(46, "I", 1), D(48, "I", 1), D(50, "I", 1), D(52, "I", 1),
       D(54, "I", 1), D(56, "I", 1), D(58, "I", 1), D(60, "I", 1),
       D(62, "I", 1), D(64, "I", 1), D(66, "I", 1), D(68, "I", 32768),
       D(70, "I", 32768), D(72, "I", 32768), D(74, "I", 32768), D(76, "I", 32768),
       D(78, "I", 32768), D(80, "I", 32768), D(82, "I", 1), D(84, "I", 1),
       D(86, "I", 10), D(88, "I", 32768), D(90, "I", 32768), D(92, "I", 32768),
       D(94, "I", 32768), D(96, "I", 32768), D(98, "I", 32768), D(100, "I", 1),
       D(102, "I", 1), D(104, "I", 1), D(106, "I", 1), D(108, "I", 1),
       D(110, "I", 1), D(112, "I", 1), D(114, "I", 1), D(116, "I", 1),
       D(118, "I", 1), D(120, "I", 1), D(122, "I", 1), D(124, "I", 1),
       D(126, "I", 1), D(128, "I", 32768), D(130, "I", 32768), D(132, "I", 32768),
       D(134, "I", 32768), D(136, "I", 32768), D(138, "I", 1), D(140, "I", 32768),
       D(142, "I", 32768), D(144, "I", 32768), D(146, "I", 32768), D(148, "I", 32768),
       D(150, "I", 1), D(152, "I", 32768), D(154, "I", 32768), D(156, "I", 32768),
       D(158, "I", 32768), D(160, "I", 3600), D(162, "I", 32768), D(164, "I", 3600),
       D(166, "I", 3600), D(168, "I", 3600), D(170, "I", 86400), D(172, "I", 32768),
       D(174, "I", 86400), D(176, "I", 60), D(178, "I", 32768), D(180, "I", 3600),
       D(182, "I", 32768), D(184, "I", 32768), D(186, "I", 32768), D(188, "I", 3600),
       D(190, "I", 32768), D(192, "I", 1), D(194, "I", 1), D(196, "I", 1),
       D(198, "I", 1), D(200, "I", 1)
    >>

\* the two pauses of a reset, in tenths of a second
ResetPause1 == 1
ResetPause2 == 10

\* the members of the client's DATATYPE enumeration: name and value = (format, register count)
DATATYPE ==
    << [name |-> "INT16",   value |-> <<"h", 1>>],
       [name |-> "UINT16",  value |-> <<"H", 1>>],
       [name |-> "INT32",   value |-> <<"i", 2>>],
       [name |-> "UINT32",  value |-> <<"I", 2>>],
       [name |-> "INT64",   value |-> <<"q", 4>>],
       [name |-> "UINT64",  value |-> <<"Q", 4>>],
       [name |-> "FLOAT32", value |-> <<"f", 2>>],
       [name |-> "FLOAT64", value |-> <<"d", 4>>] >>

\* no process_registers has run
NoValue == [raw |-> 0, factor |-> <<1, 1>>, value |-> <<0, 1>>]

\* Python's None
None == [name |-> "None", value |-> <<>>]

\* the format codes the register map uses
SupportedFormats == {SENS_MG2_MB_REGISTER_MAP[i].format : i \in 1..Len(SENS_MG2_MB_REGISTER_MAP)}

\* get_data_type: the first member whose format matches; falling off the
\* loop returns None
get_data_type(format) ==
    LET hits == {i \in 1..Len(DATATYPE) : DATATYPE[i].value[1] = format}
    IN  IF hits = {} THEN None
        ELSE DATATYPE[CHOOSE i \in hits : \A j \in hits : i <= j]

\* what a read can come back with: the call raises ModbusException, or it
\* returns a response; isError() and being an ExceptionResponse are the two
\* things the caller asks of a response
Responses == {[raised |-> FALSE, isError |-> e, isExc |-> x] : e, x \in BOOLEAN}
Raised == [raised |-> TRUE, isError |-> FALSE, isExc |-> FALSE]
NoResponse == [raised |-> FALSE, isError |-> FALSE, isExc |-> FALSE]

Ev(op, n) == [op |-> op, n |-> n]

----------------------------------------------------------------------------
(* Initial state: the module is loaded and main is about to connect *)

Table == SubSeq(SENS_MG2_MB_REGISTER_MAP, 1, NumDesc)

InitWith(tables) ==
    /\ pc = "connect"
    /\ CYCLES \in 0..MaxCycles
    /\ table \in tables
    /\ count = 0
    /\ idx = 0
    /\ error = FALSE
    /\ data_type = None
    /\ rr = NoResponse
    /\ client = "Disconnected"
    /\ trace = <<>>
    /\ results = <<>>
    /\ reports = <<>>
    /\ initial = "none"
    /\ started = 0
    /\ finished = 0
    /\ scans = 0
    /\ lastFailed = FALSE
    /\ connects = 0
    /\ exc = ""
    /\ issued = FALSE
    /\ outstanding = <<>>
    /\ shutdown = FALSE
    /\ value = NoValue

Init == InitWith({Table})

\* format codes a table row can be written with: the three the map uses and
\* one that no member of DATATYPE has
FormatCodes == {"H", "i", "I", "X"}

\* the table with the format of one row rewritten
Tables == {[Table EXCEPT ![k].format = f] : k \in 1..NumDesc, f \in FormatCodes}

InitAnyTable == InitWith(Tables)

----------------------------------------------------------------------------
(* main *)

\* the statements that call the client, and the call each one makes
CallPcs == {"connect", "close", "reset_close", "reset_connect", "read"}
CallOf(at) == CASE at \in {"connect", "reset_connect"} -> "connect"
                [] at \in {"close", "reset_close"} -> "close"
                [] OTHER -> "read"

\* lines 151, 159, 173, 175, 185: control reaches a client call and the call
\* is started; the statement's own action below is its return
Issue ==
    /\ pc \in CallPcs
    /\ ~issued
    /\ issued' = TRUE
    /\ outstanding' = Append(outstanding, CallOf(pc))
    /\ UNCHANGED <<pc, CYCLES, table, count, idx, error, data_type, rr, client,
                   trace, results, reports, initial, started, finished, scans,
                   lastFailed, connects, exc, shutdown, value>>

\* line 151: await client.connect(); the outcome is not looked at
MainConnect ==
    /\ pc = "connect"
    /\ issued
    /\ issued' = FALSE
    /\ outstanding' = Tail(outstanding)
    /\ \E ok \in BOOLEAN :
          /\ client' = IF ok THEN "Connected" ELSE "Disconnected"
          /\ initial' = IF ok THEN "ok" ELSE "failed"
    /\ connects' = connects + 1
    /\ pc' = "start_pause"
    /\ UNCHANGED <<shutdown, value>>
    /\ UNCHANGED <<CYCLES, table, count, idx, error, data_type, rr, trace,
                   results, reports, started, finished, scans, lastFailed,
                   exc>>

\* line 153: sleep(1)
MainPause ==
    /\ pc = "start_pause"
    /\ pc' = "for_count"
    /\ UNCHANGED <<issued, outstanding, shutdown, value>>
    /\ UNCHANGED <<CYCLES, table, count, idx, error, data_type, rr, client,
                   trace, results, reports, initial, started, finished, scans,
                   lastFailed, connects, exc>>

\* ForCount without line 165: the flag of the previous sweep is kept
ForCountKeepsError ==
    /\ pc = "for_count"
    /\ IF count < CYCLES
         THEN /\ pc' = "for_desc"
              /\ started' = started + 1
              /\ error' = error
              /\ idx' = 0
              /\ trace' = <<>>
              /\ results' = <<>>
              /\ reports' = <<>>
         ELSE /\ pc' = "close"
              /\ UNCHANGED <<started, error, idx, trace, results, reports>>
    /\ UNCHANGED <<issued, outstanding, shutdown, value>>
    /\ UNCHANGED <<CYCLES, table, count, data_type, rr, client, initial,
                   finished, scans, lastFailed, connects, exc>>

\* ForCount over range(CYCLES + 1)
ForCountOneMore ==
    /\ pc = "for_count"
    /\ IF count <= CYCLES
         THEN /\ pc' = "for_desc"
              /\ started' = started + 1
              /\ error' = FALSE
              /\ idx' = 0
              /\ trace' = <<>>
              /\ results' = <<>>
              /\ reports' = <<>>
         ELSE /\ pc' = "close"
              /\ UNCHANGED <<started, error, idx, trace, results, reports>>
    /\ UNCHANGED <<issued, outstanding, shutdown, value>>
    /\ UNCHANGED <<CYCLES, table, count, data_type, rr, client, initial,
                   finished, scans, lastFailed, connects, exc>>

\* lines 155-157 and 165: the next iteration of range(CYCLES) calls
\* microgenius2_calls, which starts with error = False; an exhausted range
\* leaves the loop.  count is the number of iterations taken so far.
ForCount ==
    /\ pc = "for_count"
    /\ IF count < CYCLES
         THEN /\ pc' = "for_desc"
              /\ started' = started + 1
              /\ error' = FALSE
              /\ idx' = 0
              /\ trace' = <<>>
              /\ results' = <<>>
              /\ reports' = <<>>
         ELSE /\ pc' = "close"
              /\ UNCHANGED <<started, error, idx, trace, results, reports>>
    /\ UNCHANGED <<issued, outstanding, shutdown, value>>
    /\ UNCHANGED <<CYCLES, table, count, data_type, rr, client, initial,
                   finished, scans, lastFailed, connects, exc>>

\* line 158: sleep(10), the scan interval, then back to the loop head
IntervalSleep ==
    /\ pc = "interval_sleep"
    /\ scans' = scans + 1
    /\ count' = count + 1
    /\ pc' = "for_count"
    /\ UNCHANGED <<issued, outstanding, shutdown, value>>
    /\ UNCHANGED <<CYCLES, table, idx, error, data_type, rr, client, trace,
                   results, reports, initial, started, finished, lastFailed, connects, exc>>

\* lines 159-160: client.close(), end of program
MainClose ==
    /\ pc = "close"
    /\ issued
    /\ issued' = FALSE
    /\ outstanding' = Tail(outstanding)
    /\ client' = "Disconnected"
    /\ pc' = "done"
    /\ UNCHANGED <<shutdown, value>>
    /\ UNCHANGED <<CYCLES, table, count, idx, error, data_type, rr, trace,
                   results, reports, initial, started, finished, scans,
                   lastFailed, connects, exc>>

----------------------------------------------------------------------------
(* microgenius2_calls *)

\* ForDescriptor with the error flag never consumed: no reset is ever made
ForDescriptorNeverResets ==
    /\ pc = "for_desc"
    /\ IF idx < Len(table)
         THEN /\ idx' = idx + 1
              /\ error' = FALSE
              /\ pc' = "resolve"
              /\ UNCHANGED <<finished, lastFailed>>
         ELSE /\ pc' = "interval_sleep"
              /\ finished' = finished + 1
              /\ lastFailed' = (results # <<>> /\ results[Len(results)] # "ok")
              /\ UNCHANGED <<idx, error>>
    /\ UNCHANGED <<issued, outstanding, shutdown, value>>
    /\ UNCHANGED <<CYCLES, table, count, data_type, rr, client, trace,
                   results, reports, initial, started, scans, connects, exc>>

\* ForDescriptor passing over the descriptor that follows a failed read
ForDescriptorSkips ==
    /\ pc = "for_desc"
    /\ IF idx < Len(table)
         THEN /\ idx' = IF error /\ idx + 2 <= Len(table) THEN idx + 2 ELSE idx + 1
              /\ error' = FALSE
              /\ pc' = IF error THEN "reset_close" ELSE "resolve"
              /\ UNCHANGED <<finished, lastFailed>>
         ELSE /\ pc' = "interval_sleep"
              /\ finished' = finished + 1
              /\ lastFailed' = (results # <<>> /\ results[Len(results)] # "ok")
              /\ UNCHANGED <<idx, error>>
    /\ UNCHANGED <<issued, outstanding, shutdown, value>>
    /\ UNCHANGED <<CYCLES, table, count, data_type, rr, client, trace,
                   results, reports, initial, started, scans, connects, exc>>

\* ForDescriptor staying on the descriptor whose read failed, to read it again
\* after the reset
ForDescriptorRetries ==
    /\ pc = "for_desc"
    /\ IF idx < Len(table)
         THEN /\ idx' = IF error THEN idx ELSE idx + 1
              /\ error' = FALSE
              /\ pc' = IF error THEN "reset_close" ELSE "resolve"
              /\ UNCHANGED <<finished, lastFailed>>
         ELSE /\ pc' = "interval_sleep"
              /\ finished' = finished + 1
              /\ lastFailed' = (results # <<>> /\ results[Len(results)] # "ok")
              /\ UNCHANGED <<idx, error>>
    /\ UNCHANGED <<issued, outstanding, shutdown, value>>
    /\ UNCHANGED <<CYCLES, table, count, data_type, rr, client, trace,
                   results, reports, initial, started, scans, connects, exc>>

\* lines 169-172: take the next descriptor; a set error flag is cleared and
\* sends the sweep through the reset first.  When the table is exhausted the
\* function returns to main.
ForDescriptor ==
    /\ pc = "for_desc"
    /\ IF idx < Len(table)
         THEN /\ idx' = idx + 1
              /\ error' = FALSE
              /\ pc' = IF error THEN "reset_close" ELSE "resolve"
              /\ UNCHANGED <<finished, lastFailed>>
         ELSE /\ pc' = "interval_sleep"
              /\ finished' = finished + 1
              /\ lastFailed' = (results # <<>> /\ results[Len(results)] # "ok")
              /\ UNCHANGED <<idx, error>>
    /\ UNCHANGED <<issued, outstanding, shutdown, value>>
    /\ UNCHANGED <<CYCLES, table, count, data_type, rr, client, trace,
                   results, reports, initial, started, scans, connects, exc>>

\* ResetClose without the pause of line 174
ResetCloseNoPause ==
    /\ pc = "reset_close"
    /\ issued
    /\ issued' = FALSE
    /\ outstanding' = Tail(outstanding)
    /\ client' = "Disconnected"
    /\ trace' = Append(trace, Ev("close", 0))
    /\ pc' = "reset_connect"
    /\ UNCHANGED <<shutdown, value>>
    /\ UNCHANGED <<CYCLES, table, count, idx, error, data_type, rr, results,
                   reports, initial, started, finished, scans, lastFailed, connects, exc>>

\* ResetClose that leaves the session as it is
ResetCloseKeepsSession ==
    /\ pc = "reset_close"
    /\ issued
    /\ issued' = FALSE
    /\ outstanding' = Tail(outstanding)
    /\ client' = client
    /\ trace' = Append(trace, Ev("close", 0))
    /\ pc' = "reset_pause1"
    /\ UNCHANGED <<shutdown, value>>
    /\ UNCHANGED <<CYCLES, table, count, idx, error, data_type, rr, results,
                   reports, initial, started, finished, scans, lastFailed, connects, exc>>

\* line 173: client.close()
ResetClose ==
    /\ pc = "reset_close"
    /\ issued
    /\ issued' = FALSE
    /\ outstanding' = Tail(outstanding)
    /\ client' = "Disconnected"
    /\ trace' = Append(trace, Ev("close", 0))
    /\ pc' = "reset_pause1"
    /\ UNCHANGED <<shutdown, value>>
    /\ UNCHANGED <<CYCLES, table, count, idx, error, data_type, rr, results,
                   reports, initial, started, finished, scans, lastFailed, connects, exc>>

\* line 174: sleep(0.1)
ResetSleep1 ==
    /\ pc = "reset_pause1"
    /\ trace' = Append(trace, Ev("sleep", ResetPause1))
    /\ pc' = "reset_connect"
    /\ UNCHANGED <<issued, outstanding, shutdown, value>>
    /\ UNCHANGED <<CYCLES, table, count, idx, error, data_type, rr, client,
                   results, reports, initial, started, finished, scans,
                   lastFailed, connects, exc>>

\* ResetConnect going on without waiting for the connect to complete
ResetConnectNoWait ==
    /\ pc = "reset_connect"
    /\ issued
    /\ issued' = FALSE
    /\ outstanding' = outstanding
    /\ \E ok \in BOOLEAN :
          /\ client' = IF ok THEN "Connected" ELSE "Disconnected"
          /\ trace' = Append(trace, Ev(IF ok THEN "connect" ELSE "connect_failed", 0))
    /\ pc' = "reset_pause2"
    /\ UNCHANGED <<shutdown, value>>
    /\ UNCHANGED <<CYCLES, table, count, idx, error, data_type, rr, results,
                   reports, initial, started, finished, scans, lastFailed, connects, exc>>

\* line 175: client.connect(); the outcome is not looked at
ResetConnect ==
    /\ pc = "reset_connect"
    /\ issued
    /\ issued' = FALSE
    /\ outstanding' = Tail(outstanding)
    /\ \E ok \in BOOLEAN :
          /\ client' = IF ok THEN "Connected" ELSE "Disconnected"
          /\ trace' = Append(trace, Ev(IF ok THEN "connect" ELSE "connect_failed", 0))
    /\ pc' = "reset_pause2"
    /\ UNCHANGED <<shutdown, value>>
    /\ UNCHANGED <<CYCLES, table, count, idx, error, data_type, rr, results,
                   reports, initial, started, finished, scans, lastFailed, connects, exc>>

\* line 176: sleep(1)
ResetSleep2 ==
    /\ pc = "reset_pause2"
    /\ trace' = Append(trace, Ev("sleep", ResetPause2))
    /\ pc' = "resolve"
    /\ UNCHANGED <<issued, outstanding, shutdown, value>>
    /\ UNCHANGED <<CYCLES, table, count, idx, error, data_type, rr, client,
                   results, reports, initial, started, finished, scans,
                   lastFailed, connects, exc>>

\* lines 178-180: data_type = get_data_type(format); count and var_type are
\* attributes of it, so a None raises AttributeError out of the function and
\* out of main
Resolve ==
    /\ pc = "resolve"
    /\ data_type' = get_data_type(table[idx].format)
    /\ pc' = IF data_type' = None THEN "crashed" ELSE "read"
    /\ exc' = IF data_type' = None THEN "AttributeError" ELSE exc
    /\ UNCHANGED <<issued, outstanding, shutdown, value>>
    /\ UNCHANGED <<CYCLES, table, count, idx, error, rr, client, trace,
                   results, reports, initial, started, finished, scans,
                   lastFailed, connects>>

\* outcomes of a read: a client that is not connected can only raise
ReadOutcomes == IF client = "Disconnected" THEN {Raised} ELSE Responses \cup {Raised}

\* Failed without line 188/192/196: the flag is left as it was
FailedKeepsFlag(kind) ==
    /\ error' = error
    /\ results' = Append(results, kind)
    /\ reports' = Append(reports, [n |-> idx, outcome |-> kind])
    /\ pc' = "for_desc"

\* a failed read: the error is logged, the flag is set, and `continue`
Failed(kind) ==
    /\ error' = TRUE
    /\ results' = Append(results, kind)
    /\ reports' = Append(reports, [n |-> idx, outcome |-> kind])
    /\ pc' = "for_desc"

\* lines 184-189: the read of the current descriptor, and the handler of a
\* ModbusException
Read ==
    /\ pc = "read"
    /\ issued
    /\ issued' = FALSE
    /\ outstanding' = Tail(outstanding)
    /\ trace' = Append(trace, Ev("read", idx))
    /\ \E out \in ReadOutcomes :
          /\ rr' = out
          /\ client' = IF client = "Connected" /\ (out.raised \/ out.isError \/ out.isExc)
                         THEN "Faulted" ELSE client
          /\ IF out.raised
               THEN Failed("ModbusException")
               ELSE /\ pc' = "check"
                    /\ UNCHANGED <<error, results, reports>>
    /\ UNCHANGED <<shutdown, value>>
    /\ UNCHANGED <<CYCLES, table, count, idx, data_type, initial, started,
                   finished, scans, lastFailed, connects, exc>>

\* lines 190-197: the two checks of the response; a response that passes both
\* ends the loop body
CheckResponse ==
    /\ pc = "check"
    /\ IF rr.isError
         THEN Failed("Error")
         ELSE IF rr.isExc
           THEN Failed("ExceptionResponse")
           ELSE /\ results' = Append(results, "ok")
                /\ pc' = "for_desc"
                /\ UNCHANGED <<error, reports>>
    /\ UNCHANGED <<issued, outstanding, shutdown, value>>
    /\ UNCHANGED <<CYCLES, table, count, idx, data_type, rr, client, trace,
                   initial, started, finished, scans, lastFailed, connects, exc>>

----------------------------------------------------------------------------
(* process_registers *)

\* raw integers are drawn from -MaxRaw..MaxRaw and LargeRaw
MaxRaw == 6
LargeRaw == 1234
RawInputs == (-MaxRaw..MaxRaw) \cup {LargeRaw}

\* a factor is the fraction <<numerator, denominator>>: the six factors of
\* the register map, and six below 1
Factors == {<<SENS_MG2_MB_REGISTER_MAP[i].factor, 1>> : i \in 1..Len(SENS_MG2_MB_REGISTER_MAP)}
           \cup {<<1, 10>>, <<1, 100>>, <<1, 2>>, <<1, 4>>, <<3, 10>>, <<3, 100>>}

\* no factor of Factors needs more digits than this
MaxDigits == 3

\* a / b for b > 0, rounded to the nearest integer, ties to the even one, as
\* Python's round does
RoundHalfEven(a, b) ==
    LET q == a \div b
        r == a % b
    IN  IF 2 * r < b THEN q
        ELSE IF 2 * r > b THEN q + 1
        ELSE IF q % 2 = 0 THEN q ELSE q + 1

\* int(log10(factor) * -1) for a factor below 1: -log10 cut to its integer part
Digits(factor) ==
    CHOOSE k \in 0..MaxDigits :
        /\ 10^k * factor[1] <= factor[2]
        /\ 10^(k + 1) * factor[1] > factor[2]

\* process_registers with the raw integer multiplied by the factor
process_registers_multiplies(raw, factor) ==
    IF factor[1] < factor[2]
      THEN <<RoundHalfEven(raw * factor[1] * 10^Digits(factor), factor[2]), 10^Digits(factor)>>
      ELSE <<raw * factor[1], factor[2]>>

\* lines 201-203: value = raw / factor, rounded to Digits(factor) decimal
\* places when factor < 1; raw is what convert_from_registers returns.  The
\* value is the fraction <<numerator, denominator>>; float error is left out.
process_registers(raw, factor) ==
    IF factor[1] < factor[2]
      THEN <<RoundHalfEven(raw * factor[2] * 10^Digits(factor), factor[1]), 10^Digits(factor)>>
      ELSE <<raw * factor[2], factor[1]>>

\* process_registers applied to one raw integer and one factor
ProcessRegisters ==
    /\ pc = "process"
    /\ \E raw \in RawInputs, factor \in Factors :
          value' = [raw |-> raw, factor |-> factor,
                    value |-> process_registers(raw, factor)]
    /\ pc' = "processed"
    /\ UNCHANGED <<CYCLES, table, count, idx, error, data_type, rr, client,
                   trace, results, reports, initial, started, finished, scans,
                   lastFailed, connects, exc, issued, outstanding, shutdown>>

InitDecode ==
    /\ pc = "process"
    /\ CYCLES = 0
    /\ table = Table
    /\ count = 0
    /\ idx = 0
    /\ error = FALSE
    /\ data_type = None
    /\ rr = NoResponse
    /\ client = "Disconnected"
    /\ trace = <<>>
    /\ results = <<>>
    /\ reports = <<>>
    /\ initial = "none"
    /\ started = 0
    /\ finished = 0
    /\ scans = 0
    /\ lastFailed = FALSE
    /\ connects = 0
    /\ exc = ""
    /\ issued = FALSE
    /\ outstanding = <<>>
    /\ shutdown = FALSE
    /\ value = NoValue

NextDecode == ProcessRegisters

\* process_registers on its own, over the raw integers and factors above
SpecDecode == InitDecode /\ [][NextDecode]_vars

----------------------------------------------------------------------------
(* a shutdown request *)

\* the operator asks the program to stop; nothing in the program looks at it
RequestShutdown ==
    /\ ~shutdown
    /\ pc \notin {"done", "crashed"}
    /\ shutdown' = TRUE
    /\ UNCHANGED <<pc, CYCLES, table, count, idx, error, data_type, rr, client,
                   trace, results, reports, initial, started, finished, scans,
                   lastFailed, connects, exc, issued, outstanding, value>>

----------------------------------------------------------------------------

Next ==
    \/ Issue
    \/ MainConnect
    \/ MainPause
    \/ ForCount
    \/ IntervalSleep
    \/ MainClose
    \/ ForDescriptor
    \/ ResetClose
    \/ ResetSleep1
    \/ ResetConnect
    \/ ResetSleep2
    \/ Resolve
    \/ Read
    \/ CheckResponse

Spec == Init /\ [][Next]_vars

\* the same program over a table whose format codes are inputs
SpecAnyTable == InitAnyTable /\ [][Next]_vars

NextShutdown ==
    \/ Next
    \/ RequestShutdown

\* the program with a shutdown request arriving at any moment
SpecShutdown == Init /\ [][NextShutdown]_vars

\* the program is the only process, so it keeps taking steps until it ends
FairSpec == Spec /\ WF_vars(Next)

TypeOK ==
    /\ pc \in {"connect", "start_pause", "for_count", "interval_sleep", "close",
               "done", "for_desc", "reset_close", "reset_pause1", "reset_connect",
               "reset_pause2", "resolve", "read", "check", "crashed",
               "process", "processed"}
    /\ CYCLES \in 0..MaxCycles
    /\ count \in 0..CYCLES
    /\ idx \in 0..Len(table)
    /\ error \in BOOLEAN
    /\ client \in {"Disconnected", "Connected", "Faulted"}
    /\ Len(results) <= Len(table)
    /\ issued \in BOOLEAN
    /\ shutdown \in BOOLEAN
    /\ Len(outstanding) <= 1

----------------------------------------------------------------------------
(* Properties *)

FailKinds == {"ModbusException", "Error", "ExceptionResponse"}

\* positions of the trace at which a read is issued
ReadAt(p) == p \in 1..Len(trace) /\ trace[p].op = "read"

\* the four steps of a reset end right before position p of the trace
ResetBefore(p) ==
    /\ p > 4
    /\ trace[p-4] = Ev("close", 0)
    /\ trace[p-3] = Ev("sleep", ResetPause1)
    /\ trace[p-2].op \in {"connect", "connect_failed"}
    /\ trace[p-1] = Ev("sleep", ResetPause2)

\* C1: within a sweep, for every descriptor i that is not the first, the reset
\* (close, then reconnect) comes immediately before the read of i if and only
\* if the read of i-1 failed in that sweep, and otherwise the read of i-1 is
\* what comes immediately before; when the first three reads come out ok,
\* failed, ok, the sweep so far is read 1, read 2, one reset, read 3.
C1_ResetIffPreviousFailed ==
    /\ \A p \in 1..Len(trace) :
          (ReadAt(p) /\ trace[p].n > 1) =>
             /\ ResetBefore(p) <=> (results[trace[p].n - 1] \in FailKinds)
             /\ ~ResetBefore(p) => trace[p-1] = Ev("read", trace[p].n - 1)
    /\ (/\ Len(results) >= 3
        /\ results[1] = "ok" /\ results[2] \in FailKinds /\ results[3] = "ok")
       => SubSeq(trace, 1, 7) =
            << Ev("read", 1), Ev("read", 2), Ev("close", 0), Ev("sleep", ResetPause1),
               Ev("connect", 0), Ev("sleep", ResetPause2), Ev("read", 3) >>

\* the three-descriptor scenario: ok, failed, ok
C1_Witness ==
    /\ Len(results) >= 3
    /\ results[1] = "ok" /\ results[2] \in FailKinds /\ results[3] = "ok"

\* what the handling of a failed read of the current descriptor leaves behind
FailHandled(kind) ==
    /\ error'
    /\ results' = Append(results, kind)
    /\ reports' = Append(reports, [n |-> idx, outcome |-> kind])
    /\ pc' = "for_desc"
    /\ idx' = idx
    /\ exc' = ""

\* C2: a failed read never ends the sweep: whether the read call raises, the
\* response says isError, or the response is an exception frame, the step
\* sets the error flag, records one failed result (no value) for the current
\* descriptor and goes back to the loop head for the next descriptor.
C2_FailedReadHandled ==
    [][ /\ (pc = "read" /\ issued /\ rr'.raised) => FailHandled("ModbusException")
        /\ (pc = "check" /\ rr.isError) => FailHandled("Error")
        /\ (pc = "check" /\ rr.isExc) => \E k \in FailKinds : FailHandled(k)
      ]_vars

\* a sweep in which each of the three kinds of failure has been handled
C2_Witness ==
    /\ pc = "for_desc"
    /\ error
    /\ FailKinds \subseteq {results[i] : i \in 1..Len(results)}
    /\ Len(reports) = 3

\* C3: once the reconnect of a reset has failed, no read is issued in the
\* rest of the sweep.
C3_ResetFailureAborts ==
    \A p, q \in 1..Len(trace) :
       (p < q /\ trace[p].op = "connect_failed") => trace[q].op # "read"

\* C4: a sweep that has returned has logged exactly one result line for
\* every descriptor of the table, in table order.
C4_OneResultPerDescriptor ==
    pc = "interval_sleep" =>
       /\ Len(reports) = Len(table)
       /\ \A i \in 1..Len(reports) : reports[i].n = i

\* the statements of microgenius2_calls
SweepPcs == {"for_desc", "reset_close", "reset_pause1", "reset_connect",
             "reset_pause2", "resolve", "read", "check"}

\* the descriptors read so far in this sweep, in the order of the reads
ReadOrder == [k \in 1..Cardinality({p \in 1..Len(trace) : ReadAt(p)}) |->
                 trace[CHOOSE p \in 1..Len(trace) :
                          /\ ReadAt(p)
                          /\ Cardinality({q \in 1..p : ReadAt(q)}) = k].n]

\* C5: the k-th read of a sweep is the read of the k-th descriptor, and
\* sweeps do not overlap: while a sweep runs every earlier sweep has
\* returned, and a sweep returns only when every descriptor of the table has
\* been processed.
C5_TableOrderSequentialCycles ==
    /\ \A k \in DOMAIN ReadOrder : ReadOrder[k] = k
    /\ Len(ReadOrder) \in {idx - 1, idx}
    /\ pc \in SweepPcs => (started = finished + 1 /\ finished = count)
    /\ pc \in {"for_count", "interval_sleep", "close", "done"} => started = finished
    /\ pc = "interval_sleep" => Len(results) = Len(table)

\* the second sweep issues the read of its second descriptor after a sweep
\* in which a read failed
C5_Witness ==
    /\ started = 2 /\ pc = "check" /\ idx = 2
    /\ lastFailed

\* C6: every sweep starts with the error flag clear, and the first client
\* call of a sweep is the read of the first descriptor, never a reset.
C6_FlagNotCarried ==
    /\ (pc = "for_desc" /\ idx = 0) => ~error
    /\ trace # <<>> => trace[1] = Ev("read", 1)

\* the first read of a sweep that follows a sweep whose last read failed
C6_Witness ==
    /\ lastFailed
    /\ started >= 2
    /\ trace = <<Ev("read", 1)>>

\* C7: if main's connect fails, no sweep is started and no read is issued.
C7_FailFast ==
    initial = "failed" =>
       /\ started = 0
       /\ pc \notin SweepPcs
       /\ trace = <<>>

\* C8: with CYCLES > 0 the run ends, and when it has ended main has
\* connected once and has run exactly CYCLES sweeps, each one returned and
\* followed by the scan-interval sleep.
C8_BoundedRun ==
    /\ (CYCLES > 0) ~> (pc = "done")
    /\ [](pc = "done" =>
            /\ connects = 1
            /\ started = CYCLES /\ finished = CYCLES /\ scans = CYCLES)
    /\ [](pc = "interval_sleep" => scans = finished - 1)
    /\ [](pc \in SweepPcs => scans = finished)

\* the end of a run of MaxCycles sweeps
C8_Witness ==
    pc = "done" /\ CYCLES = MaxCycles /\ finished = MaxCycles

\* C9: with CYCLES = 0 the run never reaches the end of the program.
C9_ZeroRunsForever ==
    CYCLES = 0 => pc # "done"

\* the format the resolver was last applied to
Resolved == pc \in {"read", "check", "crashed"}

\* C10: for a format code of the supported set the resolver returns a
\* mapping of 1 or 2 registers; for any other code it raises
\* UnknownFormatCode and returns nothing.
C10_ResolverTotal ==
    Resolved =>
       IF table[idx].format \in SupportedFormats
         THEN data_type # None /\ data_type.value[2] \in {1, 2}
         ELSE exc = "UnknownFormatCode" /\ pc = "crashed"

\* C11: a table with a row whose format code is invalid is rejected when it
\* is built: no read is issued for any descriptor, the ones before the
\* invalid row included.
C11_InvalidTableNeverPolled ==
    (\E k \in 1..Len(table) : table[k].format \notin SupportedFormats) =>
       /\ trace = <<>>
       /\ pc \notin {"read", "check"}

\* the number of registers the read of a row asks for
WordCount(row) == get_data_type(row.format).value[2]

\* C12: in the register map the addresses are strictly increasing (so no two
\* rows share one), and the registers of a row end at or before the address
\* of the next row; the rows a sweep reads are rows of this map.
C12_MapAddressesDisjoint ==
    /\ \A i \in 1..(Len(SENS_MG2_MB_REGISTER_MAP) - 1) :
          LET row == SENS_MG2_MB_REGISTER_MAP[i]
              nxt == SENS_MG2_MB_REGISTER_MAP[i + 1]
          IN  /\ row.addr < nxt.addr
              /\ row.addr + WordCount(row) <= nxt.addr
    /\ \A i \in 1..Len(table) :
          /\ table[i].addr = SENS_MG2_MB_REGISTER_MAP[i].addr
          /\ table[i].format = SENS_MG2_MB_REGISTER_MAP[i].format

\* the sweep reads a row that starts right where a two-register row ends
C12_Witness ==
    /\ pc = "check" /\ idx >= 2
    /\ table[idx] = SENS_MG2_MB_REGISTER_MAP[idx]
    /\ WordCount(table[idx - 1]) = 2
    /\ table[idx - 1].addr + 2 = table[idx].addr

\* the steps by which the three listed transitions are made
ListedTransition ==
    \/ /\ client = "Disconnected" /\ client' = "Connected"
       /\ pc \in {"connect", "reset_connect"}
    \/ /\ client = "Connected" /\ client' = "Faulted"
       /\ pc = "read"
    \/ /\ client = "Faulted" /\ client' = "Disconnected"
       /\ pc = "reset_close"

\* C16 as stated: the connection state changes only from Disconnected to
\* Connected on a connect or reconnect, from Connected to Faulted on a failed
\* read, and from Faulted to Disconnected on the close of a reset.
C16_OnlyListedTransitions ==
    [][client' # client => ListedTransition]_vars

\* C16 as amended: the connection state changes only along the listed
\* transitions or, on main's final close, from Connected or Faulted to
\* Disconnected; the close of a reset is never issued from Connected.
C16_ListedOrFinalClose ==
    [][ /\ client' # client =>
             \/ ListedTransition
             \/ /\ client \in {"Connected", "Faulted"} /\ client' = "Disconnected"
                /\ pc = "close"
        /\ pc = "reset_close" => client # "Connected"
      ]_vars

\* a run of one sweep without a failure has made its final close
C16_Witness ==
    /\ pc = "done" /\ initial = "ok" /\ finished = 1
    /\ Len(results) = Len(table)
    /\ \A i \in 1..Len(results) : results[i] = "ok"

ConnectOps == {"connect", "connect_failed"}

\* C17: the steps of a reset come in the order close, pause of 0.1 s,
\* reconnect, pause of 1 s; nothing else comes in between, so no read is
\* issued between the close and the end of the reconnect, and none of these
\* steps is made outside a reset.
C17_ResetStepOrder ==
    \A p \in 1..Len(trace) :
       /\ trace[p].op = "close" =>
             /\ p + 1 <= Len(trace) => trace[p+1] = Ev("sleep", ResetPause1)
             /\ p + 2 <= Len(trace) => trace[p+2].op \in ConnectOps
             /\ p + 3 <= Len(trace) => trace[p+3] = Ev("sleep", ResetPause2)
       /\ trace[p].op \in ConnectOps =>
             p > 2 /\ trace[p-2].op = "close" /\ trace[p-1] = Ev("sleep", ResetPause1)
       /\ trace[p] = Ev("sleep", ResetPause1) => (p > 1 /\ trace[p-1].op = "close")
       /\ trace[p] = Ev("sleep", ResetPause2) => (p > 1 /\ trace[p-1].op \in ConnectOps)

\* a whole reset has been made and the next read issued
C17_Witness ==
    \E p \in 1..Len(trace) : ReadAt(p) /\ ResetBefore(p)

\* C18: a read is issued only on a session that is Connected.
C18_ReadOnlyWhenConnected ==
    pc = "read" => client = "Connected"

\* C19: no descriptor is read twice in a sweep, and the read that follows a
\* reset is the read of the descriptor after the one whose read failed.
C19_NoRetryWithinCycle ==
    /\ \A p, q \in 1..Len(trace) :
          (p < q /\ ReadAt(p) /\ ReadAt(q)) => trace[p].n # trace[q].n
    /\ \A p \in 1..Len(trace) :
          (ReadAt(p) /\ ResetBefore(p)) =>
             /\ ReadAt(p - 5)
             /\ trace[p].n = trace[p-5].n + 1
             /\ results[trace[p-5].n] \in FailKinds

\* in the second sweep a failed read has been followed by a reset and the
\* read of the next descriptor, after a first sweep that also had a failure
C19_Witness ==
    /\ started = 2
    /\ Len(results) >= 2 /\ results[1] \in FailKinds
    /\ \E p \in 1..Len(trace) : ReadAt(p) /\ trace[p].n = 2 /\ ResetBefore(p)

\* equality of two fractions
RatEq(a, b) == a[1] * b[2] = b[1] * a[2]

\* ceil(-log10(factor)) when factor < 1, else 0
CeilDigits(factor) ==
    IF factor[1] < factor[2]
      THEN CHOOSE k \in 0..(MaxDigits + 1) :
              /\ 10^k * factor[1] >= factor[2]
              /\ \A j \in 0..(k - 1) : 10^j * factor[1] < factor[2]
      ELSE 0

IssuesRead == pc = "read" /\ ~issued /\ issued'

\* C14: once a shutdown has been requested no read of a further descriptor
\* is started; only a read already in flight completes.
C14_ShutdownBetweenDescriptors ==
    [][shutdown => ~IssuesRead]_vars

====
